---- MODULE Spec2Model ----
(***************************************************************************)
(* Game of Life (src/src/main.py): the automaton engine GameOfLife with    *)
(* its two neighbour-counting functions, and the Tkinter front end         *)
(* (GOLGUI, GOLCanvasCells) that edits and steps the engine.               *)
(*                                                                         *)
(* A numpy int array is a record [shape |-> <<W, H>>, data |-> f] with f a *)
(* function from the index pairs <<x, y>>, 0 <= x < W, 0 <= y < H, to the  *)
(* cell values.  Array objects live in a two-slot heap so that two names   *)
(* bound to the same array (self.last_state = self.cur_state) are seen as  *)
(* the same buffer; get_next_state allocates its pending_state in the slot *)
(* that no name refers to once last_state has been rebound.                *)
(***************************************************************************)
EXTENDS Integers, FiniteSets, Sequences, TLC

\* Largest width and height of an engine grid built with an arbitrary seed.
MaxDim == 3
\* Largest number of cells W*H of such a grid.
MaxCells == 9
\* Largest iters argument given to GameOfLife.run.
MaxIters == 2
\* Cells per row and per column of the GUI's canvas (50 and 40 in the program).
CanvasW == 2
CanvasH == 2
\* Clicks on the canvas the GUI handles in one session.
MaxClicks == 2
\* Largest value the generation counter is let to reach.
MaxStep == 2

DEAD == 0
ALIVE == 1

VARIABLES
    gol,              \* the GameOfLife object: w, h, wrapping, alive_func and the
                      \* heap slots its names last_state and cur_state refer to
    heap,             \* the numpy arrays, by slot
    static,           \* value returned by the latest get_next_state
    static_before,    \* value returned by the get_next_state before that one
    neighbors_alive,  \* neighbors_alive computed for each cell by the latest step
    op,               \* the operation that produced this state: [name, args]
    cells,            \* GOLCanvasCells.cells: TRUE where a rectangle id is held
    canvas,           \* the Tk canvas: the number of rectangles drawn on each cell
    step,             \* GOLGUI.step, the generation counter
    running,          \* GOLGUI._running
    run_job,          \* GOLGUI._run_job: a timer id, or None
    after_jobs,       \* the timer ids Tk holds for a callback still to come
    handled,          \* the latest two GUI handlers, newest first
    clicks            \* canvas clicks handled so far

engine == <<gol, heap, static, static_before, neighbors_alive>>
widgets == <<cells, canvas, step, running, run_job, after_jobs, handled, clicks>>
vars == <<gol, heap, static, static_before, neighbors_alive, op,
          cells, canvas, step, running, run_job, after_jobs, handled, clicks>>

----------------------------------------------------------------------------
\* numpy arrays

Min(a, b) == IF a < b THEN a ELSE b

Pos(W, H) == (0 .. W - 1) \X (0 .. H - 1)

Cells(state) == Pos(state.shape[1], state.shape[2])

\* np.zeros(shape, dtype=int)
zeros(shape) == [shape |-> shape, data |-> [p \in Pos(shape[1], shape[2]) |-> 0]]

\* An index into an axis of length n: a negative index counts from the end.
Index(i, n) == IF i < 0 THEN i + n ELSE i

\* A slice whose negative start is cut at the first index of the axis.
Slice_clamped(lo, hi, n) ==
    LET start == IF lo < 0 THEN 0 ELSE Min(lo, n)
        stop  == IF hi < 0 THEN (IF hi + n < 0 THEN 0 ELSE hi + n) ELSE Min(hi, n)
    IN  {i \in 0 .. n - 1 : start <= i /\ i < stop}

\* The indices selected by the slice lo:hi on an axis of length n.
Slice(lo, hi, n) ==
    LET start == IF lo < 0 THEN (IF lo + n < 0 THEN 0 ELSE lo + n) ELSE Min(lo, n)
        stop  == IF hi < 0 THEN (IF hi + n < 0 THEN 0 ELSE hi + n) ELSE Min(hi, n)
    IN  {i \in 0 .. n - 1 : start <= i /\ i < stop}

RECURSIVE SumOver(_, _)
SumOver(S, state) ==
    IF S = {} THEN 0
    ELSE LET p == CHOOSE q \in S : TRUE
         IN  state.data[p] + SumOver(S \ {p}, state)

\* np.sum(state[x - 1:x + 2, y - 1:y + 2])
WindowSum(x, y, state) ==
    SumOver(Slice(x - 1, x + 2, state.shape[1]) \X Slice(y - 1, y + 2, state.shape[2]),
            state)

AllDead(state) == \A p \in Cells(state) : state.data[p] = DEAD

\* np.array_equal(a, b)
array_equal(a, b) == a.shape = b.shape /\ a.data = b.data

----------------------------------------------------------------------------
\* The two alive functions

Offsets == {d \in (-1 .. 1) \X (-1 .. 1) : ~(d[1] = 0 /\ d[2] = 0)}

\* WrapCell with an index past the end moved to the last row or column.
WrapCell_last(x, y, d, state) ==
    LET cx0 == x + d[1]
        cy0 == y + d[2]
        cx  == IF cx0 >= state.shape[1] THEN state.shape[1] - 1 ELSE cx0
        cy  == IF cy0 >= state.shape[2] THEN state.shape[2] - 1 ELSE cy0
    IN  <<Index(cx, state.shape[1]), Index(cy, state.shape[2])>>

\* The cell read for offset <<i, j>> by the border loop of is_alive_wrapping.
WrapCell(x, y, d, state) ==
    LET cx0 == x + d[1]
        cy0 == y + d[2]
        cx  == IF cx0 >= state.shape[1] THEN 0 ELSE cx0
        cy  == IF cy0 >= state.shape[2] THEN 0 ELSE cy0
    IN  <<Index(cx, state.shape[1]), Index(cy, state.shape[2])>>

\* neighbors_alive as is_alive_wrapping computes it.
count_wrapping(x, y, state) ==
    IF 0 < x /\ x < state.shape[1] - 1 /\ 0 < y /\ y < state.shape[2] - 1
    THEN WindowSum(x, y, state) - state.data[<<x, y>>]
    ELSE Cardinality({d \in Offsets : state.data[WrapCell(x, y, d, state)] = 1})

\* neighbors_alive as is_alive computes it.
count_clamped(x, y, state) == WindowSum(x, y, state) - state.data[<<x, y>>]

\* wrapping_rule with the lower limit off by one.
wrapping_rule_low(cell, n) ==
    IF cell = 1
    THEN (IF n < 1 \/ n > 3 THEN FALSE ELSE TRUE)
    ELSE (IF n = 3 THEN TRUE ELSE FALSE)

\* Lines 27-33: the cell's next value from its value and neighbors_alive.
wrapping_rule(cell, n) ==
    IF cell = 1
    THEN (IF n < 2 \/ n > 3 THEN FALSE ELSE TRUE)
    ELSE (IF n = 3 THEN TRUE ELSE FALSE)

\* clamped_rule with the upper limit off by one.
clamped_rule_high(cell, n) ==
    IF cell = 1
    THEN (IF n < 2 \/ n > 2 THEN FALSE ELSE TRUE)
    ELSE (IF n = 3 THEN TRUE ELSE FALSE)

\* Lines 40-46: the same rule, as is_alive repeats it.
clamped_rule(cell, n) ==
    IF cell = 1
    THEN (IF n < 2 \/ n > 3 THEN FALSE ELSE TRUE)
    ELSE (IF n = 3 THEN TRUE ELSE FALSE)

is_alive_wrapping(x, y, state) ==
    wrapping_rule(state.data[<<x, y>>], count_wrapping(x, y, state))

is_alive(x, y, state) ==
    clamped_rule(state.data[<<x, y>>], count_clamped(x, y, state))

----------------------------------------------------------------------------
\* GameOfLife

Slots == {1, 2}

\* self.alive_func(x, y, state)
alive_func(g, x, y, state) ==
    IF g.alive_func = "is_alive_wrapping"
    THEN is_alive_wrapping(x, y, state)
    ELSE is_alive(x, y, state)

\* The rule of the alive function g dispatches to.
rule_func(g, cell, n) ==
    IF g.alive_func = "is_alive_wrapping"
    THEN wrapping_rule(cell, n)
    ELSE clamped_rule(cell, n)

\* The neighbors_alive local of the alive function g dispatches to.
count_func(g, x, y, state) ==
    IF g.alive_func = "is_alive_wrapping"
    THEN count_wrapping(x, y, state)
    ELSE count_clamped(x, y, state)

\* GameOfLife(initial_state, wrapping) without the np.copy: both names are
\* bound to the caller's array.
GameOfLife_nocopy(initial_state, wrapping) ==
    [gol  |-> [w          |-> initial_state.shape[1],
               h          |-> initial_state.shape[2],
               last_state |-> 1,
               cur_state  |-> 1,
               wrapping   |-> wrapping,
               alive_func |-> IF wrapping THEN "is_alive_wrapping" ELSE "is_alive"],
     heap |-> [s \in Slots |-> initial_state]]

\* GameOfLife(initial_state, wrapping): last_state is the caller's array,
\* cur_state a copy of it.
GameOfLife(initial_state, wrapping) ==
    [gol  |-> [w          |-> initial_state.shape[1],
               h          |-> initial_state.shape[2],
               last_state |-> 1,
               cur_state  |-> 2,
               wrapping   |-> wrapping,
               alive_func |-> IF wrapping THEN "is_alive_wrapping" ELSE "is_alive"],
     heap |-> [s \in Slots |-> initial_state]]

\* get_next_state comparing the new generation with the array last_state
\* named before the call.
get_next_state_stale(g, hp, check_static) ==
    LET last    == g.cur_state
        fresh   == CHOOSE s \in Slots : s # last
        cur     == hp[g.cur_state]
        counts  == [p \in Cells(cur) |-> count_func(g, p[1], p[2], cur)]
        pending == [shape |-> cur.shape,
                    data  |-> [p \in Cells(cur) |->
                                 IF rule_func(g, cur.data[p], counts[p]) THEN 1 ELSE 0]]
        hp2     == [hp EXCEPT ![fresh] = pending]
        g2      == [g EXCEPT !.last_state = last, !.cur_state = fresh]
    IN  [gol    |-> g2,
         heap   |-> hp2,
         ret    |-> IF check_static
                    THEN array_equal(hp[g.last_state], pending)
                    ELSE FALSE,
         counts |-> counts]

\* get_next_state on the object g over the heap hp: the object, the heap, the
\* returned value and the neighbors_alive of each call of the alive function.
\* Each call of self.alive_func(x, y, self.cur_state) is the rule of that
\* function applied to the cell and to the count that function computes.
get_next_state(g, hp, check_static) ==
    LET last    == g.cur_state
        fresh   == CHOOSE s \in Slots : s # last
        cur     == hp[g.cur_state]
        counts  == [p \in Cells(cur) |-> count_func(g, p[1], p[2], cur)]
        pending == [shape |-> cur.shape,
                    data  |-> [p \in Cells(cur) |->
                                 IF rule_func(g, cur.data[p], counts[p]) THEN 1 ELSE 0]]
        hp2     == [hp EXCEPT ![fresh] = pending]
        g2      == [g EXCEPT !.last_state = last, !.cur_state = fresh]
    IN  [gol    |-> g2,
         heap   |-> hp2,
         ret    |-> IF check_static
                    THEN array_equal(hp2[g2.last_state], hp2[g2.cur_state])
                    ELSE FALSE,
         counts |-> counts]

\* run leaving its loop as soon as a pass reports a static grid.
RECURSIVE run_until_static(_, _)
run_until_static(r, iters) ==
    IF iters = 0
    THEN r
    ELSE LET n  == get_next_state(r.gol, r.heap, TRUE)
             r2 == [gol |-> n.gol, heap |-> n.heap, ret |-> n.ret,
                    counts |-> n.counts, before |-> r.ret]
         IN  IF n.ret THEN r2 ELSE run_until_static(r2, iters - 1)

\* run(iters): the loop of GameOfLife.run, as the state after iters passes.
\* r carries the result of the latest pass and, in before, the value the
\* pass before it returned.
RECURSIVE run(_, _)
run(r, iters) ==
    IF iters = 0
    THEN r
    ELSE LET n == get_next_state(r.gol, r.heap, TRUE)
         IN  run([gol |-> n.gol, heap |-> n.heap, ret |-> n.ret,
                  counts |-> n.counts, before |-> r.ret], iters - 1)

----------------------------------------------------------------------------
\* The engine used on its own

None == 0

Shapes == {s \in (1 .. MaxDim) \X (1 .. MaxDim) : s[1] * s[2] <= MaxCells}

Arrays(shape) ==
    {[shape |-> shape, data |-> f] : f \in [Pos(shape[1], shape[2]) -> {DEAD, ALIVE}]}

\* The array of the given shape whose ALIVE cells are exactly those of S.
Pattern(shape, S) ==
    [shape |-> shape,
     data  |-> [p \in Pos(shape[1], shape[2]) |-> IF p \in S THEN ALIVE ELSE DEAD]]

Blinker == Pattern(<<5, 5>>, {<<1, 2>>, <<2, 2>>, <<3, 2>>})
Block == Pattern(<<4, 4>>, {<<1, 1>>, <<1, 2>>, <<2, 1>>, <<2, 2>>})

Seeds ==
    {<<a, wr>> : a \in UNION {Arrays(s) : s \in Shapes}, wr \in BOOLEAN}
      \cup {<<Blinker, TRUE>>} \cup {<<Block, wr>> : wr \in BOOLEAN}

Init ==
    \E seed \in Seeds :
        LET e == GameOfLife(seed[1], seed[2])
        IN  /\ gol = e.gol
            /\ heap = e.heap
            /\ static = FALSE
            /\ static_before = FALSE
            /\ neighbors_alive = [p \in Cells(seed[1]) |-> 0]
            /\ op = [name |-> "init", args |-> <<>>]
            /\ cells = <<>>
            /\ canvas = <<>>
            /\ step = 0
            /\ running = FALSE
            /\ run_job = None
            /\ after_jobs = {}
            /\ handled = <<>>
            /\ clicks = 0

GetNextState ==
    \E check_static \in BOOLEAN :
        \E r \in {get_next_state(gol, heap, check_static)} :
            /\ gol' = r.gol
            /\ heap' = r.heap
            /\ static' = r.ret
            /\ static_before' = static
            /\ neighbors_alive' = r.counts
            /\ op' = [name |-> "get_next_state",
                      args |-> <<IF check_static THEN 1 ELSE 0>>]
            /\ UNCHANGED widgets

Run ==
    \E iters \in 0 .. MaxIters :
        \E r \in {run([gol |-> gol, heap |-> heap, ret |-> static,
                        counts |-> neighbors_alive, before |-> static_before],
                       iters)} :
            /\ gol' = r.gol
            /\ heap' = r.heap
            /\ static' = r.ret
            /\ static_before' = r.before
            /\ neighbors_alive' = r.counts
            /\ op' = [name |-> "run", args |-> <<iters>>]
            /\ UNCHANGED widgets

Next == GetNextState \/ Run

Spec == Init /\ [][Next]_vars

----------------------------------------------------------------------------
\* GOLCanvasCells and GOLGUI.  A handler is a function of the program state u,
\* a record of the engine and widget fields.

cw == 15
ch == 15

World ==
    [gol |-> gol, heap |-> heap, static |-> static,
     neighbors_alive |-> neighbors_alive, cells |-> cells, canvas |-> canvas,
     step |-> step, running |-> running, run_job |-> run_job,
     after_jobs |-> after_jobs]

\* GOLCanvasCells(frame, w, h) inside GOLGUI(root)
GOLGUI(cw_cells, ch_cells) ==
    LET e == GameOfLife(zeros(<<cw_cells, ch_cells>>), TRUE)
    IN  [gol |-> e.gol, heap |-> e.heap, static |-> FALSE,
         neighbors_alive |-> [p \in Pos(cw_cells, ch_cells) |-> 0],
         cells |-> [p \in Pos(cw_cells, ch_cells) |-> FALSE],
         canvas |-> [p \in Pos(cw_cells, ch_cells) |-> 0],
         step |-> 0, running |-> FALSE, run_job |-> None, after_jobs |-> {}]

\* The cell a click at pixel (ex, ey) is mapped to.
ClickCell(ex, ey) == <<ex \div cw, ey \div ch>>

\* self.cells[x][y] raises IndexError: a list of length n takes the indices
\* -n .. n - 1.
OutOfRange(u, c) ==
    ~(/\ 0 - u.gol.w <= c[1] /\ c[1] < u.gol.w
      /\ 0 - u.gol.h <= c[2] /\ c[2] < u.gol.h)

\* The cell that self.cells[x][y] and self.gol.cur_state[x][y] refer to.
Indexed(u, c) == <<Index(c[1], u.gol.w), Index(c[2], u.gol.h)>>

\* toggle_cell whose else branch deletes the rectangle and leaves
\* cur_state as it is.
toggle_cell_keep(u, c) ==
    LET t == Indexed(u, c)
    IN  IF ~u.cells[t]
        THEN [u EXCEPT !.heap[u.gol.cur_state].data[t] = 1,
                       !.canvas[t] = @ + 1,
                       !.cells[t] = TRUE]
        ELSE [u EXCEPT !.canvas[t] = @ - 1,
                       !.cells[t] = FALSE]

\* GOLCanvasCells.toggle_cell for indices x, y that raise no IndexError
toggle_cell(u, c) ==
    LET t == Indexed(u, c)
    IN  IF ~u.cells[t]
        THEN [u EXCEPT !.heap[u.gol.cur_state].data[t] = 1,
                       !.canvas[t] = @ + 1,
                       !.cells[t] = TRUE]
        ELSE [u EXCEPT !.heap[u.gol.cur_state].data[t] = 0,
                       !.canvas[t] = @ - 1,
                       !.cells[t] = FALSE]

\* GOLCanvasCells.clear_canvas
clear_canvas(u) ==
    [u EXCEPT !.canvas = [p \in DOMAIN u.canvas |->
                             IF u.cells[p] THEN u.canvas[p] - 1 ELSE u.canvas[p]],
              !.cells = [p \in DOMAIN u.cells |-> FALSE]]

\* draw_next_state without its clear_canvas call.
draw_next_state_noclear(u) ==
    LET r  == get_next_state(u.gol, u.heap, TRUE)
        u2 == [u EXCEPT !.gol = r.gol, !.heap = r.heap, !.static = r.ret,
                        !.neighbors_alive = r.counts]
        now == u2.heap[u2.gol.cur_state]
    IN  [u2 EXCEPT !.canvas = [p \in DOMAIN u2.canvas |->
                                  IF now.data[p] = 1 THEN u2.canvas[p] + 1
                                  ELSE u2.canvas[p]],
                   !.cells = [p \in DOMAIN u2.cells |->
                                  IF now.data[p] = 1 THEN TRUE ELSE u2.cells[p]]]

\* GOLCanvasCells.draw_next_state; the returned value is the static field.
draw_next_state(u) ==
    LET r  == get_next_state(u.gol, u.heap, TRUE)
        u1 == [u EXCEPT !.gol = r.gol, !.heap = r.heap, !.static = r.ret,
                        !.neighbors_alive = r.counts]
        u2 == clear_canvas(u1)
        now == u2.heap[u2.gol.cur_state]
    IN  [u2 EXCEPT !.canvas = [p \in DOMAIN u2.canvas |->
                                  IF now.data[p] = 1 THEN u2.canvas[p] + 1
                                  ELSE u2.canvas[p]],
                   !.cells = [p \in DOMAIN u2.cells |->
                                  IF now.data[p] = 1 THEN TRUE ELSE u2.cells[p]]]

\* GOLCanvasCells.clear
canvas_clear(u) ==
    LET u1 == clear_canvas(u)
    IN  [u1 EXCEPT !.heap[u1.gol.cur_state].data =
                       [p \in DOMAIN u1.heap[u1.gol.cur_state].data |-> 0]]

\* stop without the after_cancel of the pending timer.
stop_nocancel(u) == [u EXCEPT !.run_job = None, !.running = FALSE]

\* GOLGUI.stop
stop(u) ==
    LET u1 == IF u.run_job # None
              THEN [u EXCEPT !.after_jobs = @ \ {u.run_job}, !.run_job = None]
              ELSE u
    IN  [u1 EXCEPT !.running = FALSE]

\* frame.after(delay, self.run): an id no timer has had
NewJob(u) == CHOOSE j \in 1 .. Cardinality(u.after_jobs) + 2 :
                 j \notin u.after_jobs \cup {u.run_job}

\* GOLGUI.run
gui_run(u) ==
    LET u1 == draw_next_state(u)
        u2 == [u1 EXCEPT !.step = @ + 1]
    IN  IF ~u2.static
        THEN [u2 EXCEPT !.run_job = NewJob(u2),
                        !.after_jobs = @ \cup {NewJob(u2)}]
        ELSE stop(u2)

\* start_run without the check that the simulation is not running yet.
start_run_always(u) == gui_run([u EXCEPT !.running = TRUE])

\* GOLGUI.start_run
start_run(u) ==
    IF ~u.running
    THEN gui_run([u EXCEPT !.running = TRUE])
    ELSE u

\* clear that also sets the generation counter back.
gui_clear_reset(u) == [stop(canvas_clear(u)) EXCEPT !.step = 0]

\* GOLGUI.clear
gui_clear(u) == stop(canvas_clear(u))

----------------------------------------------------------------------------
\* The GUI session

Becomes(u) ==
    /\ gol' = u.gol
    /\ heap' = u.heap
    /\ static' = u.static
    /\ static_before' = (IF u.step # step THEN static ELSE static_before)
    /\ neighbors_alive' = u.neighbors_alive
    /\ cells' = u.cells
    /\ canvas' = u.canvas
    /\ step' = u.step
    /\ running' = u.running
    /\ run_job' = u.run_job
    /\ after_jobs' = u.after_jobs

\* The handler goes on record with what it found, how it ended and the
\* engine steps it ran; the latest, if a click, also with the indices x, y
\* it computed and the value it found in the cell they refer to.
Handled(name, raised, xy) ==
    handled' = <<[name |-> name, raised |-> raised,
                  had_alive |-> ~AllDead(heap[gol.cur_state]),
                  steps |-> step' - step,
                  xy |-> xy,
                  was |-> IF name = "toggle_cell" /\ raised = ""
                          THEN heap[gol.cur_state].data[Indexed(World, xy)]
                          ELSE 0]>>
               \o (IF handled = <<>> THEN <<>>
                   ELSE <<[handled[1] EXCEPT !.xy = <<>>, !.was = 0]>>)

\* The pixels clicked: the last pixel of each cell, the pixel past the grid
\* that the canvas, tw+1 by th+1 pixels, still has, and the pixel before the
\* canvas, where a press can lie that Tk delivers to the canvas while the
\* canvas holds the pointer grab of another button.
ClickXs == {x * cw + cw - 1 : x \in 0 .. CanvasW - 1} \cup {CanvasW * cw, 0 - 1}
ClickYs == {y * ch + ch - 1 : y \in 0 .. CanvasH - 1} \cup {CanvasH * ch, 0 - 1}

InitGUI ==
    /\ \E u \in {GOLGUI(CanvasW, CanvasH)} :
          /\ gol = u.gol
          /\ heap = u.heap
          /\ static = u.static
          /\ static_before = FALSE
          /\ neighbors_alive = u.neighbors_alive
          /\ cells = u.cells
          /\ canvas = u.canvas
          /\ step = u.step
          /\ running = u.running
          /\ run_job = u.run_job
          /\ after_jobs = u.after_jobs
    /\ op = [name |-> "init", args |-> <<>>]
    /\ handled = <<>>
    /\ clicks = 0

\* <Button-1> on the canvas
Click ==
    /\ clicks < MaxClicks
    /\ \E ex \in ClickXs, ey \in ClickYs :
          /\ op' = [name |-> "toggle_cell", args |-> <<ex, ey>>]
          /\ IF OutOfRange(World, ClickCell(ex, ey))
             THEN /\ UNCHANGED <<engine, cells, canvas, step, running, run_job, after_jobs>>
                  /\ Handled("toggle_cell", "IndexError", ClickCell(ex, ey))
             ELSE /\ Becomes(toggle_cell(World, ClickCell(ex, ey)))
                  /\ Handled("toggle_cell", "", ClickCell(ex, ey))
    /\ clicks' = clicks + 1

\* The RUN button or the Return key
StartRun ==
    /\ running \/ step < MaxStep
    /\ Becomes(start_run(World))
    /\ op' = [name |-> "start_run", args |-> <<>>]
    /\ Handled("start_run", "", <<>>)
    /\ UNCHANGED clicks

\* A timer set by frame.after comes due and calls GOLGUI.run
Tick ==
    /\ step < MaxStep
    /\ \E j \in after_jobs :
          Becomes(gui_run([World EXCEPT !.after_jobs = @ \ {j}]))
    /\ op' = [name |-> "run", args |-> <<>>]
    /\ Handled("run", "", <<>>)
    /\ UNCHANGED clicks

\* The STOP button
Stop ==
    /\ Becomes(stop(World))
    /\ op' = [name |-> "stop", args |-> <<>>]
    /\ Handled("stop", "", <<>>)
    /\ UNCHANGED clicks

\* The CLEAR button
Clear ==
    /\ Becomes(gui_clear(World))
    /\ op' = [name |-> "clear", args |-> <<>>]
    /\ Handled("clear", "", <<>>)
    /\ UNCHANGED clicks

NextGUI == Click \/ StartRun \/ Tick \/ Stop \/ Clear

SpecGUI == InitGUI /\ [][NextGUI]_vars

----------------------------------------------------------------------------
\* Reference notions the properties are stated with

cur  == heap[gol.cur_state]
last == heap[gol.last_state]

Stepped == op.name = "get_next_state"

\* ALIVE cells over the 8 offsets, coordinates taken modulo the dimensions.
ModCount(p, state) ==
    Cardinality({d \in Offsets :
        state.data[<<(p[1] + d[1]) % state.shape[1],
                     (p[2] + d[2]) % state.shape[2]>>] = ALIVE})

\* ALIVE cells among the in-bounds ones of the 8 adjacent positions.
InBoundsCount(p, state) ==
    Cardinality({d \in Offsets :
        /\ <<p[1] + d[1], p[2] + d[2]>> \in Cells(state)
        /\ state.data[<<p[1] + d[1], p[2] + d[2]>>] = ALIVE})

\* The neighbours of the active edge policy.
PolicyCount(p, state) ==
    IF gol.wrapping THEN ModCount(p, state) ELSE InBoundsCount(p, state)

\* The classic rule.
Classic(cell, n) == IF cell = ALIVE THEN n \in {2, 3} ELSE n = 3

Border(p, state) ==
    p[1] \in {0, state.shape[1] - 1} \/ p[2] \in {0, state.shape[2] - 1}

----------------------------------------------------------------------------
\* C1: in WRAPPING mode one step makes a cell ALIVE exactly when the classic
\* rule says so for the count of ALIVE cells at the 8 offsets taken modulo
\* W and H in the pre-step generation, border and corner cells included.
C1_WrappingMatchesReference ==
    [][(gol.wrapping /\ Stepped') =>
         \A p \in Cells(cur) :
             (cur'.data[p] = ALIVE) <=> Classic(cur.data[p], ModCount(p, cur))]_vars

\* A step of a wrapping 3x3 grid gave birth to the corner (0,0) with the
\* opposite corner (2,2) among its three ALIVE neighbours, while the interior
\* cell (1,1) went through the window path and survived.
C1_Witness ==
    /\ Stepped /\ gol.wrapping /\ cur.shape = <<3, 3>>
    /\ last.data[<<0, 0>>] = DEAD /\ last.data[<<2, 2>>] = ALIVE
    /\ ModCount(<<0, 0>>, last) = 3 /\ InBoundsCount(<<0, 0>>, last) < 3
    /\ cur.data[<<0, 0>>] = ALIVE
    /\ last.data[<<1, 1>>] = ALIVE /\ cur.data[<<1, 1>>] = ALIVE

\* C2: a step with check_static=True makes the previous generation the
\* pre-step current one, the current generation the newly computed one, and
\* returns true iff the pre-step and the new generation are equal cell by cell.
C2_StepReplacesAndReportsStatic ==
    [][(Stepped' /\ op'.args = <<1>>) =>
         /\ last' = cur
         /\ cur'.shape = cur.shape
         /\ \A p \in Cells(cur) :
                cur'.data[p] = IF alive_func(gol, p[1], p[2], cur) THEN 1 ELSE 0
         /\ static' <=> (\A p \in Cells(cur) : cur.data[p] = cur'.data[p])]_vars

\* A step of a 3x3 grid with ALIVE cells returned true: a still life.
C2_Witness ==
    /\ Stepped /\ op.args = <<1>>
    /\ static
    /\ \E p \in Cells(cur) : cur.data[p] = ALIVE
    /\ cur.shape = <<3, 3>>

\* C3: in both edge policies a DEAD cell with exactly 3 ALIVE neighbours is
\* ALIVE after one step; in CLAMPED mode the neighbours are the in-bounds
\* ones of the 8 adjacent positions.
C3_BirthOnThree ==
    [][Stepped' =>
         \A p \in Cells(cur) :
             (cur.data[p] = DEAD /\ PolicyCount(p, cur) = 3) => cur'.data[p] = ALIVE]_vars

\* C4: in both edge policies, width or height 2 included, an ALIVE cell with
\* 4 or more ALIVE neighbours is DEAD after one step.
C4_DeathOnFourOrMore ==
    [][Stepped' =>
         \A p \in Cells(cur) :
             (cur.data[p] = ALIVE /\ PolicyCount(p, cur) >= 4) => cur'.data[p] = DEAD]_vars

\* C5: in both edge policies an ALIVE cell with 0 or 1 ALIVE neighbour is
\* DEAD after one step.
C5_DeathOnZeroOrOne ==
    [][Stepped' =>
         \A p \in Cells(cur) :
             (cur.data[p] = ALIVE /\ PolicyCount(p, cur) <= 1) => cur'.data[p] = DEAD]_vars

\* A CLAMPED step killed the ALIVE border cell (2,1), which had exactly one
\* ALIVE neighbour in the pre-step generation.
C5_Witness ==
    /\ Stepped /\ ~gol.wrapping /\ cur.shape = <<3, 3>>
    /\ last.data[<<2, 1>>] = ALIVE /\ PolicyCount(<<2, 1>>, last) = 1
    /\ cur.data[<<2, 1>>] = DEAD

\* C6: in CLAMPED mode the neighbour count the rule uses for a cell is the
\* number of ALIVE cells among the in-bounds ones of the 8 adjacent positions.
C6_ClampedCountsInBounds ==
    [][(~gol.wrapping /\ Stepped') =>
         \A p \in Cells(cur) : neighbors_alive'[p] = InBoundsCount(p, cur)]_vars

\* The two generations of the blinker on the 5x5 grid.
BlinkerV == Pattern(<<5, 5>>, {<<2, 1>>, <<2, 2>>, <<2, 3>>})

\* C7: on the wrapping 5x5 grid seeded with the horizontal blinker every step
\* turns the horizontal line into the vertical one and back, and no step
\* returns static=true.
C7_BlinkerOscillates ==
    [][(cur.shape = <<5, 5>> /\ gol.wrapping /\ Stepped') =>
         /\ cur \in {Blinker, BlinkerV}
         /\ cur = Blinker => cur' = BlinkerV
         /\ cur = BlinkerV => cur' = Blinker
         /\ ~static']_vars

\* The second step from the seed: the vertical line stepped back to the seed.
C7_Witness ==
    /\ Stepped /\ gol.wrapping
    /\ last = BlinkerV /\ cur = Blinker /\ ~static

\* C8: on the 4x4 grid holding the block, in either policy, a step returns
\* static=true and leaves the grid unchanged.
C8_BlockIsStill ==
    [][(cur = Block /\ Stepped' /\ op'.args = <<1>>) =>
         (static' /\ cur' = Block)]_vars

\* The block stepped in CLAMPED mode.
C8_Witness ==
    /\ Stepped /\ op.args = <<1>> /\ ~gol.wrapping
    /\ last = Block /\ cur = Block /\ static

\* C9: in both policies and for every grid size a step on an all-DEAD grid
\* returns static=true and leaves every cell DEAD.
C9_AllDeadIsFixedPoint ==
    [][(AllDead(cur) /\ Stepped' /\ op'.args = <<1>>) =>
         (static' /\ AllDead(cur'))]_vars

\* An all-DEAD 3x3 grid was stepped in CLAMPED mode and reported static.
C9_Witness ==
    /\ Stepped /\ op.args = <<1>> /\ ~gol.wrapping
    /\ cur.shape = <<3, 3>>
    /\ AllDead(last) /\ AllDead(cur) /\ static

\* The latest handler ran an engine step, and the handler before it was a
\* clear() of a grid that held an ALIVE cell.
StepRightAfterClear ==
    /\ Len(handled) = 2
    /\ handled[2].name = "clear" /\ handled[2].had_alive
    /\ handled[1].steps = 1

\* C10 as stated: the step that immediately follows a clear() of a grid
\* with an ALIVE cell reports non-static.
C10_StepAfterClearNotStatic == StepRightAfterClear => ~static

\* C10 amended: that step reports static: it compares the new generation
\* with the cleared array, which it has just made the previous generation.
C10_StepAfterClearStatic ==
    StepRightAfterClear => (static /\ AllDead(last) /\ AllDead(cur))

\* The second step of a session came right after such a clear and
\* reported static.
C10_Witness == StepRightAfterClear /\ static /\ step = 2

\* The latest operation was a step, or a run of at least one pass, that
\* checked for a static grid.
CheckedStep ==
    \/ Stepped /\ op.args = <<1>>
    \/ op.name = "run" /\ op.args[1] >= 1

\* C11: once a step has returned static=true, the next step, with no edit
\* in between, returns static=true as well and leaves the grid as it was.
C11_StaticStays ==
    (static_before /\ CheckedStep) => (static /\ array_equal(last, cur))

\* Two steps in a row returned static=true on a grid with ALIVE cells.
C11_Witness ==
    /\ Stepped /\ op.args = <<1>>
    /\ static_before /\ static
    /\ ~AllDead(cur)

\* The engine after n step() calls in sequence from the object g over hp.
RECURSIVE Steps(_, _, _)
Steps(g, hp, n) ==
    IF n = 0
    THEN [gol |-> g, heap |-> hp]
    ELSE LET e == Steps(g, hp, n - 1)
             r == get_next_state(e.gol, e.heap, TRUE)
         IN  [gol |-> r.gol, heap |-> r.heap]

\* C12: run(n) ends with the object and the arrays that n step() calls in
\* sequence from the same start end with: the same current and previous
\* generation, in the buffers the n-th call leaves them in.
C12_RunIsNSteps ==
    [][op'.name = "run" =>
         \E e \in {Steps(gol, heap, op'.args[1])} :
             gol' = e.gol /\ heap' = e.heap]_vars

\* run(2) went on after its first pass had reported a static grid with
\* ALIVE cells.
C12_Witness ==
    /\ op.name = "run" /\ op.args = <<2>>
    /\ static_before /\ static
    /\ ~AllDead(cur)

\* The latest handler was a click that raised no error.
Toggled == op.name = "toggle_cell" /\ handled[1].raised = ""

\* A step writes a new array and leaves the one it read as it was; a click
\* or a clear leaves the previous generation as it was.
C13_StepAndEditFrame ==
    /\ (step' # step) =>
          (gol'.cur_state # gol.cur_state /\ heap'[gol.cur_state] = cur)
    /\ (op'.name \in {"toggle_cell", "clear"}) => (last' = last)

\* C13: last_state and cur_state never name the same array, from the
\* construction on and through steps, clicks and clears; so a step never
\* writes the generation it reads and an edit in place never changes the
\* previous generation.
C13_BuffersDistinct ==
    /\ [](gol.last_state # gol.cur_state)
    /\ [][C13_StepAndEditFrame]_vars

\* A clear of a grid with ALIVE cells, after a step: the previous generation
\* still has its ALIVE cells and the current one is all DEAD.
C13_Witness ==
    /\ op.name = "clear" /\ handled[1].had_alive /\ step >= 1
    /\ gol.last_state # gol.cur_state
    /\ ~AllDead(last) /\ AllDead(cur)

\* The indices x, y of the click that leads to the next state.
ClickedNext == ClickCell(op'.args[1], op'.args[2])

\* A click whose indices lie in the grid flips that cell of the current
\* generation and nothing else; right after a click on the same cell it
\* puts back the value that click found.
C14_ClickFlips ==
    (op'.name = "toggle_cell" /\ ClickedNext \in Cells(cur)) =>
        /\ cur' = [cur EXCEPT !.data[ClickedNext] = 1 - @]
        /\ last' = last
        /\ gol' = gol
        /\ (Toggled /\ handled[1].xy = ClickedNext) =>
               (cur'.data[ClickedNext] = handled[1].was)

\* C14: a cell edit at in-range (x,y) flips exactly the cell (x,y) of the
\* current generation and leaves its other cells and the previous
\* generation unchanged; two edits of the same cell in a row restore the grid.
C14_ToggleFlipsOneCell == [][C14_ClickFlips]_vars

\* The only two clicks of a session, one right after the other before any
\* step: the second found the cell ALIVE that the first had set on the
\* all-DEAD grid, and the grid is all DEAD again.
C14_Witness ==
    /\ clicks = 2 /\ step = 0 /\ Toggled
    /\ handled[1].xy \in Cells(cur) /\ handled[1].was = ALIVE
    /\ handled[2].name = "toggle_cell" /\ handled[2].raised = ""
    /\ AllDead(cur)

\* C15: a cell edit whose x or y, as computed from the click position, is
\* out of range (x < 0, x >= W, y < 0 or y >= H) is rejected with an error
\* and leaves the grid, and the canvas with it, unchanged.
C15_OutOfRangeRejected ==
    [][(op'.name = "toggle_cell" /\ ClickedNext \notin Cells(cur)) =>
         /\ handled'[1].raised = "IndexError"
         /\ UNCHANGED <<gol, heap, cells, canvas>>]_vars

\* A step that reports static leaves no timer pending and the running flag
\* false; so do STOP and CLEAR; and while the flag is false only RUN sets it
\* or runs a step.
C16_LoopStops ==
    /\ (step' # step /\ static') => (after_jobs' = {} /\ ~running')
    /\ (op'.name \in {"stop", "clear"}) => (after_jobs' = {} /\ ~running')
    /\ (~running /\ (step' # step \/ running')) => (op'.name = "start_run")

\* C16: in the timer-driven loop, under any interleaving of RUN, STOP, CLEAR,
\* clicks and ticks, once a step reports static no further tick is scheduled
\* and the running flag is false, and after STOP or CLEAR no step is
\* executed until RUN is invoked again.
C16_RunLoopStopsOnStaticOrStop == [][C16_LoopStops]_vars

\* The second step of a loop came from a timer tick and reported static: no
\* timer is pending and the loop is off.
C16_Witness ==
    /\ op.name = "run" /\ handled[1].steps = 1 /\ step = 2
    /\ static /\ ~running /\ after_jobs = {}

\* Each handler either runs one engine step and adds 1 to the counter or
\* runs none and leaves the counter.
C17_CounterFollowsSteps ==
    \/ /\ step' = step + 1
       /\ gol'.cur_state # gol.cur_state /\ gol'.last_state = gol.cur_state
    \/ /\ step' = step
       /\ gol'.cur_state = gol.cur_state /\ gol'.last_state = gol.last_state

\* C17: the generation counter starts at 0, grows by exactly 1 with each
\* engine step the loop executes and never decreases, STOP and CLEAR
\* included, so it counts the steps executed since the GUI was created: it
\* is even exactly when pending_state has been made cur_state an even
\* number of times.
C17_CounterCountsSteps ==
    /\ step = 0
    /\ []((step % 2 = 0) <=> (gol.cur_state = 2))
    /\ [][C17_CounterFollowsSteps]_vars

\* CLEAR pressed after two steps: the counter still reads 2.
C17_Witness ==
    /\ op.name = "clear" /\ step = 2 /\ ~running

C19_OneTickPending ==
    /\ Cardinality(after_jobs) <= 1
    /\ after_jobs # {} => (running /\ after_jobs = {run_job})

\* RUN pressed while the loop was running: no step was run and still one
\* tick is pending.
C19_Witness ==
    /\ op.name = "start_run" /\ handled[1].steps = 0
    /\ running /\ Cardinality(after_jobs) = 1

\* The cells of row x = 0 of an array at least 3 rows long and of column
\* y = 0 of an array at least 3 columns long.
EmptyWindow(state) ==
    {p \in Cells(state) : \/ p[1] = 0 /\ state.shape[1] >= 3
                          \/ p[2] = 0 /\ state.shape[2] >= 3}

\* C20: in CLAMPED mode, after any step, every cell of row x = 0 of a grid
\* with W >= 3 and every cell of column y = 0 of a grid with H >= 3 is DEAD,
\* whatever the grid before the step, and the neighbor count taken for it
\* was 0 minus the cell's own value.
C20_ClampedEdgeZeroDies ==
    (~gol.wrapping /\ (Stepped \/ (op.name = "run" /\ op.args[1] > 0))) =>
        \A p \in EmptyWindow(cur) :
            /\ cur.data[p] = DEAD
            /\ neighbors_alive[p] = 0 - last.data[p]

\* A clamped step on a 3x3 grid found cell (0,1) DEAD with exactly three
\* ALIVE neighbors inside the grid, and cell (0,1) is DEAD after it.
C20_Witness ==
    /\ Stepped /\ ~gol.wrapping /\ cur.shape = <<3, 3>>
    /\ last.data[<<0, 1>>] = DEAD /\ InBoundsCount(<<0, 1>>, last) = 3
    /\ cur.data[<<0, 1>>] = DEAD /\ neighbors_alive[<<0, 1>>] = 0

====
